---------------------------- MODULE Spec2Model ----------------------------
(***************************************************************************)
(* A model of VectorDrawable2Svg.py: the color table (read_colors_xml),    *)
(* the color resolver (get_color) and the structural mapper                *)
(* (convert_paths, convert_vector_drawable_xml and its two entry points).  *)
(*                                                                         *)
(* Python strings are sequences of one-character strings, so that          *)
(* startswith, len, slicing, "in" and split are computed as Python         *)
(* computes them.  A dict is a function whose DOMAIN is its key set.       *)
(***************************************************************************)
EXTENDS Integers, Sequences, FiniteSets, TLC

VARIABLES
    \* ---- get_color: one call from a caller, and its recursive invocations
    color_map,     \* the dict get_color reads
    arg,           \* the value the caller passed to get_color
    value,         \* the value parameter of the current invocation
    depth,         \* the depth parameter of the current invocation
    pc,            \* "idle" | "get_color" | "returned" | "raised"
    result,        \* what the outermost call returned (<<>> until then)
    err,           \* "none" | "DepthExceeded" | "TypeError"
    calls,         \* the value of every invocation so far, in order
    lookups,       \* number of color_map.get calls so far
    \* ---- read_colors_xml: the loop of convert_vector_drawable, lines 106-109
    heap,          \* the dict objects allocated so far, by object id
    map_ref,       \* the object the caller's color_map variable names
    seed_ref,      \* the object passed as orig_color_map to the last call
    read_docs,     \* the documents read so far, in reading order
    warnings,      \* the logger.warning calls so far: <<name, old value>>
    \* ---- conversion
    vd,            \* the parsed source document: nodes in document order
    color_docs,    \* the color resource documents given to the entry point
    viewbox_only,  \* the caller's viewbox-only choice
    entry,         \* "none" | "path" | "stream": the entry point called
    svg,           \* the output document (its root element)
    status         \* "parsed" | "done" | "KeyError" | "DepthExceeded" | "TypeError"

resolveVars == <<color_map, arg, value, depth, pc, result, err, calls, lookups>>
tableVars   == <<heap, map_ref, seed_ref, read_docs, warnings>>
convertVars == <<vd, color_docs, viewbox_only, entry, svg, status>>
vars == <<color_map, arg, value, depth, pc, result, err, calls, lookups,
          heap, map_ref, seed_ref, read_docs, warnings,
          vd, color_docs, viewbox_only, entry, svg, status>>

-----------------------------------------------------------------------------
(* Python string and dict primitives                                       *)

Min(a, b) == IF a < b THEN a ELSE b

\* s[lo:hi] for 0 <= lo, 0 <= hi
Slice(s, lo, hi) == SubSeq(s, lo + 1, Min(hi, Len(s)))

\* s.startswith(p)
StartsWith(s, p) == Len(s) >= Len(p) /\ SubSeq(s, 1, Len(p)) = p

\* the positions (1-based) at which p occurs in s
Occurrences(p, s) ==
    {i \in 1..(Len(s) - Len(p) + 1) : SubSeq(s, i, i + Len(p) - 1) = p}

\* p in s
Contains(p, s) == Occurrences(p, s) # {}

\* s.find(p) + 1, for p in s
FirstIndex(p, s) ==
    CHOOSE i \in Occurrences(p, s) : \A j \in Occurrences(p, s) : i <= j

\* the text of rest before the next occurrence of p (or all of rest)
UpToNext(rest, p) ==
    IF Contains(p, rest) THEN SubSeq(rest, 1, FirstIndex(p, rest) - 1) ELSE rest

\* s.split(p)[1], for p in s: the text between the first occurrence of p and
\* the next one (or the end of s)
SplitSecond(s, p) == UpToNext(SubSeq(s, FirstIndex(p, s) + Len(p), Len(s)), p)

\* Python's None: told from every string, whose elements are single characters
None == <<"None">>

\* d.get(k)
DictGet(d, k) == IF k \in DOMAIN d THEN d[k] ELSE None

\* d[k] = v
DictSet(d, k, v) == (k :> v) @@ d

\* the empty dict
EmptyDict == <<>>

-----------------------------------------------------------------------------
(* get_color, lines 38-62                                                  *)

\* line 39
prefix == <<"@", "c", "o", "l", "o", "r", "/">>

\* line 49: the bound of the depth guard
DepthLimit == 3

\* line 42: the length of '#' followed by eight hex digits
AlphaLen == 9

\* line 41
IsLiteral(v) == StartsWith(v, <<"#">>)

\* line 46: '#' + value[3:9] + value[1:3]
SwapAlpha(v) == <<"#">> \o Slice(v, 3, 9) \o Slice(v, 1, 3)

\* variant: the alpha move applied to a literal of any length
LiteralResult_Always(v) == SwapAlpha(v)

\* lines 42-47
LiteralResult(v) == IF Len(v) = AlphaLen THEN SwapAlpha(v) ELSE v

\* variant: the guard one hop too early
DepthExceeded_Two(d) == d >= DepthLimit - 1

\* variant: the guard one hop too late
DepthExceeded_Four(d) == d >= DepthLimit + 1

\* line 49
DepthExceeded(d) == d >= DepthLimit

\* line 52
HasPrefix(v) == Contains(prefix, v)

\* line 55
RefName(v) == SplitSecond(v, prefix)

\* line 57: not color
Falsy(color) == color = None \/ color = <<>>

\* variant: an undefined name is an error
Unresolved_Raise(v) == [kind |-> "raise", err |-> "KeyError"]

\* line 58: the unresolved reference is returned as this invocation got it
Unresolved(v) == [kind |-> "return", value |-> v]

\* lines 60-62: what an invocation does with the value it found in the table
Resolved(color, d) ==
    IF HasPrefix(color)
    THEN [kind |-> "call", value |-> color, depth |-> d + 1]
    ELSE [kind |-> "return", value |-> color]

\* lines 57-62: what an invocation does with the result of color_map.get
AfterLookup(color, v, d) ==
    IF Falsy(color) THEN Unresolved(v) ELSE Resolved(color, d)

\* One invocation of get_color, lines 39-62: it returns, raises, or calls
\* itself (whose result it returns as it is).
get_color_body(cm, v, d) ==
    IF IsLiteral(v) THEN [kind |-> "return", value |-> LiteralResult(v)]
    ELSE IF DepthExceeded(d) THEN [kind |-> "raise", err |-> "DepthExceeded"]
    ELSE IF ~HasPrefix(v) THEN [kind |-> "raise", err |-> "TypeError"]
    ELSE AfterLookup(DictGet(cm, RefName(v)), v, d)

\* whether an invocation reaches line 56
LooksUp(v, d) == ~IsLiteral(v) /\ ~DepthExceeded(d) /\ HasPrefix(v)

\* get_color as a function: the outcome of the whole call, given the outcome
\* r of its first invocation
RECURSIVE Outcome(_, _)
Outcome(cm, r) ==
    IF r.kind = "call"
    THEN Outcome(cm, get_color_body(cm, r.value, r.depth))
    ELSE r

get_color(cm, v, d) == Outcome(cm, get_color_body(cm, v, d))

-----------------------------------------------------------------------------
(* The strings the model draws colors and names from                       *)

NameA == <<"a">>
NameB == <<"b">>
NameC == <<"c">>
NameD == <<"d">>

\* names a colors.xml may define; NameD is defined by none
Names == {NameA, NameB, NameC}
AllNames == Names \cup {NameD}

Ref(n) == prefix \o n

Lit3 == <<"#", "F", "F", "F">>
Lit6 == <<"#", "1", "1", "2", "2", "3", "3">>
Lit8 == <<"#", "8", "0", "1", "1", "2", "2", "3", "3">>
Red  == <<"r", "e", "d">>

HexLiterals == {Lit3, Lit6, Lit8}

\* the text a <color> entry may hold
TableValues == {Lit6, Lit8, Ref(NameA), Ref(NameB), Ref(NameC), Ref(NameD),
                <<>>, Red}

\* the values a fillColor or strokeColor attribute may hold
StartValues == TableValues \cup {Lit3, <<"x">> \o Ref(NameA),
                                 Ref(NameD) \o Ref(NameA)}

\* every dict from some of the names to table values
Tables == UNION {[D -> TableValues] : D \in SUBSET Names}

-----------------------------------------------------------------------------
(* A caller of get_color (convert_paths, lines 76 and 94) and get_color's  *)
(* invocations                                                             *)

IdleResolve ==
    /\ color_map = EmptyDict /\ arg = <<>> /\ value = <<>> /\ depth = 0
    /\ pc = "idle" /\ result = <<>> /\ err = "none" /\ calls = <<>>
    /\ lookups = 0

IdleTable ==
    /\ heap = <<>> /\ map_ref = 0 /\ seed_ref = 0 /\ read_docs = <<>>
    /\ warnings = <<>>

IdleConvert ==
    /\ vd = <<>> /\ color_docs = <<>> /\ viewbox_only = FALSE
    /\ entry = "none" /\ svg = <<>> /\ status = "idle"

InitResolve ==
    /\ color_map \in Tables
    /\ arg = <<>> /\ value = <<>> /\ depth = 0
    /\ pc = "idle" /\ result = <<>> /\ err = "none" /\ calls = <<>>
    /\ lookups = 0
    /\ IdleTable /\ IdleConvert

\* get_color(color_map, v): depth takes its default, 1 (line 38)
CallGetColor ==
    /\ pc \in {"idle", "returned", "raised"}
    /\ \E v \in StartValues :
        /\ arg' = v
        /\ value' = v
        /\ calls' = <<v>>
    /\ depth' = 1
    /\ pc' = "get_color"
    /\ result' = <<>>
    /\ err' = "none"
    /\ lookups' = 0
    /\ UNCHANGED <<color_map, tableVars, convertVars>>

\* the effect of one invocation whose outcome is r
Invoked(r) ==
    CASE r.kind = "return" ->
            /\ pc' = "returned" /\ result' = r.value
            /\ UNCHANGED <<value, depth, err, calls>>
      [] r.kind = "raise" ->
            /\ pc' = "raised" /\ err' = r.err
            /\ UNCHANGED <<value, depth, result, calls>>
      [] r.kind = "call" ->
            /\ value' = r.value /\ depth' = r.depth
            /\ calls' = Append(calls, r.value)
            /\ UNCHANGED <<pc, result, err>>

\* one invocation of get_color runs, lines 39-62
GetColor ==
    /\ pc = "get_color"
    /\ lookups' = IF LooksUp(value, depth) THEN lookups + 1 ELSE lookups
    /\ Invoked(get_color_body(color_map, value, depth))
    /\ UNCHANGED <<color_map, arg, tableVars, convertVars>>

NextResolve == CallGetColor \/ GetColor

SpecResolve == InitResolve /\ [][NextResolve]_vars

-----------------------------------------------------------------------------
(* Properties of get_color                                                 *)

Done == pc \in {"returned", "raised"}

Defined(n) == n \in DOMAIN color_map

Last(q) == q[Len(q)]

\* #AARRGGBB written as #RRGGBBAA; any other literal as it is
SvgOrder(v) ==
    IF Len(v) = 9
    THEN <<"#", v[4], v[5], v[6], v[7], v[8], v[9], v[2], v[3]>>
    ELSE v

\* v is @color/<name> for a name the table does not define
AbsentRef(v) == \E n \in AllNames : v = Ref(n) /\ ~Defined(n)

\* following the table from name n never leaves the table's references
Cyclic(n) ==
    \E S \in SUBSET (DOMAIN color_map) :
        /\ n \in S
        /\ \A m \in S : \E k \in S : color_map[m] = Ref(k)

\* the value is a color value: a literal or a reference
WellFormed(v) == v # <<>> /\ (v[1] = "#" \/ \E n \in AllNames : v = Ref(n))

\* C1: a call at the default depth on a chain a -> b -> literal (both names
\* defined) returns the literal; on a chain a -> b -> c -> literal it raises
\* the depth-exceeded error and returns nothing.
C1_TwoHopsReturnThreeHopsRaise ==
    Done =>
      \A n1 \in Names, n2 \in Names :
        (arg = Ref(n1) /\ Defined(n1) /\ color_map[n1] = Ref(n2) /\ Defined(n2))
        => /\ color_map[n2] \in HexLiterals
                => pc = "returned" /\ result = color_map[n2]
           /\ \A n3 \in Names :
                (color_map[n2] = Ref(n3) /\ Defined(n3)
                    /\ color_map[n3] \in HexLiterals)
                => pc = "raised" /\ err = "DepthExceeded" /\ result = <<>>

C1_Witness ==
    /\ pc = "raised" /\ err = "DepthExceeded"
    /\ arg = Ref(NameA) /\ Defined(NameA) /\ color_map[NameA] = Ref(NameB)
    /\ Defined(NameB) /\ color_map[NameB] = Ref(NameC)
    /\ Defined(NameC) /\ color_map[NameC] = Lit6

\* C2 (as claimed): whenever a resolution meets a reference to an undefined
\* name, in the caller's value or in one reached through the table, the call
\* returns the string the caller passed and raises nothing.
C2_AbsentReturnsCallersString ==
    (Done /\ \E i \in 1..Len(calls) : AbsentRef(calls[i]))
        => pc = "returned" /\ result = arg

\* C2 (amended): a reference to an undefined name is met only by the last
\* invocation; below depth 3 that invocation returns the reference it was
\* given (the caller's string when it is the first invocation, the table's
\* reference otherwise), and at depth 3 the call raises depth-exceeded.
C2_AbsentReturnsReachedReference ==
    /\ \A i \in 1..(Len(calls) - 1) : ~AbsentRef(calls[i])
    /\ (Done /\ calls # <<>> /\ AbsentRef(Last(calls)))
        => IF Len(calls) < 3
           THEN /\ pc = "returned" /\ result = Last(calls)
                /\ (Len(calls) = 1 => result = arg)
           ELSE pc = "raised" /\ err = "DepthExceeded"

C2_Witness ==
    /\ pc = "returned" /\ Len(calls) = 2 /\ AbsentRef(calls[2])
    /\ result # arg

\* C3 (as claimed): every value beginning with '#' is returned unchanged,
\* whatever the table.
C3_LiteralFixedPoint ==
    (Done /\ arg # <<>> /\ arg[1] = "#") => pc = "returned" /\ result = arg

\* C3 (amended): a value beginning with '#' is returned by the first
\* invocation without a table lookup; unchanged when its length is not 9,
\* and with its first two digits moved to the end when its length is 9.
C3_LiteralIndependentOfTable ==
    (Done /\ arg # <<>> /\ arg[1] = "#")
        => /\ pc = "returned" /\ Len(calls) = 1 /\ lookups = 0
           /\ Len(arg) # 9 => result = arg
           /\ Len(arg) = 9 => result = SvgOrder(arg)

C3_Witness == pc = "returned" /\ arg = Lit8 /\ result # arg /\ color_map # <<>>

\* the literal a resolution ends at: the caller's value, or the table entry
\* one or two references away
EndsAt(lit) ==
    \/ arg = lit
    \/ \E n \in Names :
        /\ arg = Ref(n) /\ Defined(n)
        /\ \/ color_map[n] = lit
           \/ \E m \in Names :
                color_map[n] = Ref(m) /\ Defined(m) /\ color_map[m] = lit

\* C4: every hex color a resolution ends at is returned in SVG order
\* (#AARRGGBB as #RRGGBBAA, any other literal unchanged), also when it was
\* reached through @color/ references.
C4_AlphaMovedOnEveryPath ==
    pc = "returned" => \A lit \in HexLiterals : EndsAt(lit) => result = SvgOrder(lit)

\* C10: a call started at depth 1 makes at most three invocations and two
\* table lookups and an unfinished call can always step; for a color value
\* it ends returned or with the depth-exceeded error, and on a cycle of
\* references it ends with the depth-exceeded error.
C10_AtMostThreeInvocations ==
    /\ Len(calls) <= 3 /\ lookups <= 2
    /\ pc = "get_color" => depth = Len(calls) /\ lookups = Len(calls) - 1
    /\ pc = "get_color" => ENABLED GetColor
    /\ (Done /\ WellFormed(arg)) => pc = "returned" \/ err = "DepthExceeded"
    /\ \A n \in Names :
        (Done /\ arg = Ref(n) /\ Cyclic(n))
            => pc = "raised" /\ err = "DepthExceeded" /\ Len(calls) = 3

C10_Witness ==
    /\ pc = "raised" /\ err = "DepthExceeded" /\ Len(calls) = 3 /\ lookups = 2
    /\ arg = Ref(NameA) /\ Defined(NameA) /\ color_map[NameA] = Ref(NameB)
    /\ Defined(NameB) /\ color_map[NameB] = Ref(NameA)

-----------------------------------------------------------------------------
(* read_colors_xml, lines 19-35, and the loop that calls it, lines 106-109 *)

\* a <color name=...>text</color> node
Color(n, v) == [name |-> n, value |-> v]

\* a colors.xml: its path (or stream) is truthy or not, and its color nodes
\* are in document order
ColorsXml(c) == [truthy |-> TRUE, colors |-> c]
NoFile == [truthy |-> FALSE, colors |-> <<>>]

\* lines 28-33 for the color nodes from position i on: the dict and the
\* warnings logged
RECURSIVE ReadColors(_, _, _, _)
ReadColors(cm, log, colors, i) ==
    IF i > Len(colors) THEN [map |-> cm, log |-> log]
    ELSE LET name == colors[i].name
             val  == colors[i].value
         IN  ReadColors(DictSet(cm, name, val),
                        IF name \in DOMAIN cm
                        THEN Append(log, <<name, cm[name]>>) ELSE log,
                        colors, i + 1)

\* lines 20-23: color_map names a new dict object, a copy of the seed (object
\* orig of heap h) or empty when there is no seed (orig = 0)
CopySeed(h, orig) ==
    [heap |-> Append(h, IF orig # 0 THEN h[orig] ELSE EmptyDict),
     ref  |-> Len(h) + 1]

\* variant: a name the seed already defines keeps the seed's value
ReadInto_KeepFirst(cm, log, doc) ==
    [map |-> cm @@ ReadColors(cm, log, doc.colors, 1).map,
     log |-> ReadColors(cm, log, doc.colors, 1).log]

\* lines 25-33
ReadInto(cm, log, doc) ==
    IF doc.truthy THEN ReadColors(cm, log, doc.colors, 1)
    ELSE [map |-> cm, log |-> log]

\* read_colors_xml(doc, orig_color_map): the heap after the call, the object
\* returned and the warnings logged
read_colors_xml(h, log, doc, orig) ==
    LET c == CopySeed(h, orig)
        r == ReadInto(c.heap[c.ref], log, doc)
    IN  [heap |-> [c.heap EXCEPT ![c.ref] = r.map], ref |-> c.ref,
         log |-> r.log]

\* the number of colors.xml files one conversion reads
MaxDocs == 3

\* the colors.xml files the model draws from
ColorDocs ==
    { NoFile,
      ColorsXml(<<>>),
      ColorsXml(<<Color(NameA, Lit6)>>),
      ColorsXml(<<Color(NameA, Ref(NameB)), Color(NameB, Lit8)>>),
      ColorsXml(<<Color(NameB, Lit6), Color(NameB, Ref(NameC))>>),
      ColorsXml(<<Color(NameC, Lit8), Color(NameA, Lit8), Color(NameC, Lit6)>>) }

\* line 106: color_map = {}
InitTable ==
    /\ heap = <<EmptyDict>>
    /\ map_ref = 1
    /\ seed_ref = 0
    /\ read_docs = <<>>
    /\ warnings = <<>>
    /\ IdleResolve /\ IdleConvert

\* line 109: color_map = read_colors_xml(color_map_path, color_map)
ReadColorsXml ==
    /\ Len(read_docs) < MaxDocs
    /\ \E doc \in ColorDocs :
        LET r == read_colors_xml(heap, warnings, doc, map_ref)
        IN  /\ heap' = r.heap
            /\ map_ref' = r.ref
            /\ warnings' = r.log
            /\ read_docs' = Append(read_docs, doc)
    /\ seed_ref' = map_ref
    /\ UNCHANGED <<resolveVars, convertVars>>

NextTable == ReadColorsXml

SpecTable == InitTable /\ [][NextTable]_vars

-----------------------------------------------------------------------------
(* Properties of the color table                                           *)

\* the color nodes of the first k documents read, in reading order
RECURSIVE NodesRead(_)
NodesRead(k) ==
    IF k = 0 THEN <<>> ELSE NodesRead(k - 1) \o read_docs[k].colors

\* the table in which every name has the value of its last occurrence
LastWins(nodes) ==
    LET occ(n) == {i \in 1..Len(nodes) : nodes[i].name = n}
        last(n) == CHOOSE i \in occ(n) : \A j \in occ(n) : j <= i
    IN  [n \in {nodes[i].name : i \in 1..Len(nodes)} |-> nodes[last(n)].value]

\* the number of times a name is defined again
Collisions(nodes) ==
    Cardinality({i \in 1..Len(nodes) :
                    \E j \in 1..(i - 1) : nodes[j].name = nodes[i].name})

\* C5: after any number of colors.xml files are read, each call seeded with
\* the previous result, the table maps every name to the value of its last
\* occurrence and keeps the names of earlier files; every collision is only
\* logged; and each dict passed as a seed is still what it was when passed.
C5_LaterWinsSeedKept ==
    /\ Len(heap) = Len(read_docs) + 1
    /\ map_ref = Len(heap)
    /\ \A k \in 0..Len(read_docs) : heap[k + 1] = LastWins(NodesRead(k))
    /\ Len(warnings) = Collisions(NodesRead(Len(read_docs)))
    /\ read_docs # <<>> => seed_ref = map_ref - 1

C5_Witness ==
    /\ Len(read_docs) = 2
    /\ read_docs[1] = ColorsXml(<<Color(NameA, Ref(NameB)), Color(NameB, Lit8)>>)
    /\ read_docs[2] = ColorsXml(<<Color(NameB, Lit6), Color(NameB, Ref(NameC))>>)
    /\ heap[map_ref] = (NameA :> Ref(NameB)) @@ (NameB :> Ref(NameC))
    /\ heap[seed_ref] = (NameA :> Ref(NameB)) @@ (NameB :> Lit8)
    /\ Len(warnings) = 2

-----------------------------------------------------------------------------
(* The source document and Python values                                   *)

\* An element of the parsed document: nodes are kept in document order, and
\* parent is the position of the parent element (0 for the root element).
Node(tag, parent, attrs) == [tag |-> tag, parent |-> parent, attrs |-> attrs]

\* An element of the output document.  src is the position of the source
\* element it was made for (0 for the output root): it is not in the file
\* written, and only lets properties name the source of an output element.
Element(tag, attrs, children, src) ==
    [tag |-> tag, attrs |-> attrs, children |-> children, src |-> src]

\* element.hasAttribute(name)
HasAttribute(node, name) == name \in DOMAIN node.attrs

\* whether node i is inside element c
RECURSIVE IsDescendant(_, _, _)
IsDescendant(doc, i, c) ==
    /\ i > c
    /\ doc[i].parent # 0
    /\ (doc[i].parent = c \/ IsDescendant(doc, doc[i].parent, c))

\* container.getElementsByTagName(tag), for the element at position c;
\* c = 0 is the Document, which contains every element
ElementsByTagName(doc, c, tag) ==
    LET Hit(i) == doc[i].tag = tag /\ (c = 0 \/ IsDescendant(doc, i, c))
    IN  SelectSeq([i \in 1..Len(doc) |-> i], Hit)

\* a Python value that is an int or a str
PyInt(n) == [type |-> "int", int |-> n, str |-> <<>>]
PyStr(t) == [type |-> "str", int |-> 0, str |-> t]

\* variant: the string "0" counts as zero
Truthy_Numeric(v) == v.int # 0 \/ (v.type = "str" /\ v.str \notin {<<>>, <<"0">>})

\* bool(v): an int is true unless 0, a str unless empty
Truthy(v) == IF v.type = "int" THEN v.int # 0 ELSE v.str # <<>>

Digits == <<"0", "1", "2", "3", "4", "5", "6", "7", "8", "9">>

\* str(n) for a natural number n
RECURSIVE IntToStr(_)
IntToStr(n) ==
    IF n < 10 THEN <<Digits[n + 1]>>
    ELSE IntToStr(n \div 10) \o <<Digits[(n % 10) + 1]>>

\* what '{}'.format(v) writes
Format(v) == IF v.type = "int" THEN IntToStr(v.int) ELSE v.str

-----------------------------------------------------------------------------
(* convert_paths, lines 66-97                                              *)

PathData       == "android:pathData"
FillColor      == "android:fillColor"
StrokeColor    == "android:strokeColor"
StrokeLineJoin == "android:strokeLineJoin"
StrokeLineCap  == "android:strokeLineCap"
StrokeMiter    == "android:strokeMiterLimit"
StrokeWidth    == "android:strokeWidth"

NoneFill == <<"n", "o", "n", "e">>

Raise(e) == [err |-> e, out |-> <<>>]
Ok(x)    == [err |-> "none", out |-> x]

\* variant: every path inside the container is taken
IsDirectChild_Any(doc, i, c) == TRUE

\* line 70: vd_path.parentNode == vd_container
IsDirectChild(doc, i, c) == doc[i].parent = c

\* lines 81-92: an attribute is copied when the source has it
CopyAttr(out, node, from, to) ==
    IF HasAttribute(node, from) THEN DictSet(out, to, node.attrs[from]) ELSE out

\* lines 75-79: the fill, as get_color returns or raises it
FillOf(node, cm) ==
    IF HasAttribute(node, FillColor)
    THEN get_color(cm, node.attrs[FillColor], 1)
    ELSE [kind |-> "return", value |-> NoneFill]

\* lines 93-95: the stroke, when the path has a strokeColor
StrokeOf(node, cm) ==
    IF HasAttribute(node, StrokeColor)
    THEN get_color(cm, node.attrs[StrokeColor], 1)
    ELSE [kind |-> "return", value |-> <<>>]

\* lines 93-94
StrokeAttr(out, node, stroke) ==
    IF HasAttribute(node, StrokeColor)
    THEN DictSet(out, "stroke", stroke.value)
    ELSE out

\* lines 72-95: the attributes of the svg path
PathAttrs(node, fill, stroke) ==
    StrokeAttr(
      CopyAttr(
        CopyAttr(
          CopyAttr(
            CopyAttr(
              DictSet(DictSet(<<>>, "d", node.attrs[PathData]),
                      "fill", fill.value),
              node, StrokeLineJoin, "stroke-linejoin"),
            node, StrokeLineCap, "stroke-linecap"),
          node, StrokeMiter, "stroke-miterlimit"),
        node, StrokeWidth, "stroke-width"),
      node, stroke)

\* lines 71-97 for source path i: the svg path appended, or the error raised
\* (line 72 raises KeyError for a path without pathData)
SvgPathOf(node, i, fill, stroke) ==
    IF ~HasAttribute(node, PathData) THEN Raise("KeyError")
    ELSE IF fill.kind = "raise" THEN Raise(fill.err)
    ELSE IF stroke.kind = "raise" THEN Raise(stroke.err)
    ELSE Ok(Element("path", PathAttrs(node, fill, stroke), <<>>, i))

SvgPath(doc, i, cm) ==
    SvgPathOf(doc[i], i, FillOf(doc[i], cm), StrokeOf(doc[i], cm))

\* the least member of a non-empty set of numbers
Least(S) == CHOOSE k \in S : \A j \in S : k <= j

\* a loop that appends made[1], made[2], ... and stops at the first that
\* raises: the elements appended, or the error
Collect(made) ==
    LET bad == {k \in DOMAIN made : made[k].err # "none"}
    IN  IF bad # {} THEN Raise(made[Least(bad)].err)
        ELSE Ok([k \in DOMAIN made |-> made[k].out])

\* lines 68-70: of the paths inside the container, those that are its children
DirectChildren(doc, c, paths) ==
    LET Direct(i) == IsDirectChild(doc, i, c)
    IN  SelectSeq(paths, Direct)

\* lines 68-97 for the paths the loop converts
PathsToSvg(doc, paths, cm) ==
    Collect([k \in 1..Len(paths) |-> SvgPath(doc, paths[k], cm)])

\* convert_paths(vd_container, svg_container, svg_xml, color_map): the
\* children appended to svg_container, or the error raised
convert_paths(doc, c, cm) ==
    PathsToSvg(doc, DirectChildren(doc, c, ElementsByTagName(doc, c, "path")),
               cm)

-----------------------------------------------------------------------------
(* convert_vector_drawable_xml, lines 147-195                              *)

ViewportWidth  == "android:viewportWidth"
ViewportHeight == "android:viewportHeight"
TranslateX     == "android:translateX"
TranslateY     == "android:translateY"

Xmlns == <<"h", "t", "t", "p", ":", "/", "/", "w", "w", "w", ".", "w", "3",
           ".", "o", "r", "g", "/", "2", "0", "0", "0", "/", "s", "v", "g">>

\* line 148: the first vector element of the document
VectorNode(doc) == ElementsByTagName(doc, 0, "vector")[1]

\* variant: viewbox_only is ignored
RootSize_Always(root, vbo) ==
    DictSet(DictSet(<<>>, "width", root.attrs[ViewportWidth]),
            "height", root.attrs[ViewportHeight])

\* lines 157-161
RootSize(root, vbo) ==
    IF ~vbo
    THEN DictSet(DictSet(<<>>, "width", root.attrs[ViewportWidth]),
                 "height", root.attrs[ViewportHeight])
    ELSE <<>>

\* lines 163-165: '0 0 {} {}'.format(width, height)
ViewBox(root) ==
    <<"0", " ", "0", " ">> \o root.attrs[ViewportWidth] \o <<" ">>
        \o root.attrs[ViewportHeight]

\* lines 174-180
Translate(node, name) ==
    IF HasAttribute(node, name) THEN PyStr(node.attrs[name]) ELSE PyInt(0)

\* lines 182-184
TransformAttr(translate_x, translate_y) ==
    IF Truthy(translate_x) \/ Truthy(translate_y)
    THEN DictSet(<<>>, "transform",
                 <<"t", "r", "a", "n", "s", "l", "a", "t", "e", "(">>
                    \o Format(translate_x) \o <<",">>
                    \o Format(translate_y) \o <<")">>)
    ELSE <<>>

\* lines 174-184
GroupAttrs(node) ==
    TransformAttr(Translate(node, TranslateX), Translate(node, TranslateY))

\* lines 172-190 for group g: the g element appended to the svg node, given
\* what convert_paths did for the group
SvgGroup(node, g, paths) ==
    IF paths.err # "none" THEN paths
    ELSE Ok(Element("g", GroupAttrs(node), paths.out, g))

\* lines 168-190: the g elements appended to the svg node, one for each group
\* of the list in its order, or the first error raised
GroupsToSvg(doc, groups, cm) ==
    Collect([k \in 1..Len(groups) |->
                SvgGroup(doc[groups[k]], groups[k],
                         convert_paths(doc, groups[k], cm))])

\* variant: the paths of the vector node are appended before the groups
RootChildren_PathsFirst(groups, paths) == paths \o groups

\* lines 190 and 193: the groups are appended to the svg node first, and the
\* paths of the vector node after them
RootChildren(groups, paths) == groups \o paths

\* lines 156-165: the attributes of the svg node
RootAttrs(root, vbo) ==
    DictSet(RootSize(root, vbo), "viewBox", ViewBox(root))
        @@ DictSet(<<>>, "xmlns", Xmlns)

\* lines 167-195, given what the loop over the groups and convert_paths on
\* the vector node did
SvgRoot(attrs, groups, paths) ==
    IF groups.err # "none" THEN groups
    ELSE IF paths.err # "none" THEN paths
    ELSE Ok(Element("svg", attrs, RootChildren(groups.out, paths.out), 0))

\* lines 150-195 for the vector node at position vd_node (lines 158-165 raise
\* KeyError for a vector node without viewportWidth or viewportHeight)
ConvertRoot(doc, vd_node, cm, vbo) ==
    IF ~HasAttribute(doc[vd_node], ViewportWidth) THEN Raise("KeyError")
    ELSE IF ~HasAttribute(doc[vd_node], ViewportHeight) THEN Raise("KeyError")
    ELSE SvgRoot(RootAttrs(doc[vd_node], vbo),
                 GroupsToSvg(doc, ElementsByTagName(doc, 0, "group"), cm),
                 convert_paths(doc, vd_node, cm))

\* convert_vector_drawable_xml(vd_xml, color_map, viewbox_only)
convert_vector_drawable_xml(doc, cm, vbo) ==
    ConvertRoot(doc, VectorNode(doc), cm, vbo)

-----------------------------------------------------------------------------
(* The entry points, lines 101-121 and 124-144                             *)

\* lines 108-109 for the files from position k of the list on
RECURSIVE ReadAllFrom(_, _, _, _)
ReadAllFrom(h, ref, docs, k) ==
    IF k > Len(docs) THEN h[ref]
    ELSE LET r == read_colors_xml(h, <<>>, docs[k], ref)
         IN  ReadAllFrom(r.heap, r.ref, docs, k + 1)

\* lines 106-109: the table convert_vector_drawable builds
PathColorMap(docs) == ReadAllFrom(<<EmptyDict>>, 1, docs, 1)

\* lines 134-137: the table convert_vector_drawable_stream builds from its
\* optional stream (docs is empty when the caller passes none)
StreamColorMap(docs) ==
    IF docs # <<>> /\ docs[1].truthy
    THEN LET r == read_colors_xml(<<>>, <<>>, docs[1], 0) IN r.heap[r.ref]
    ELSE EmptyDict

\* the entry point returns (or writes) the document, or raises
Finish(r, cm, e) ==
    /\ status' = IF r.err = "none" THEN "done" ELSE r.err
    /\ svg' = r.out
    /\ color_map' = cm
    /\ entry' = e
    /\ UNCHANGED <<arg, value, depth, pc, result, err, calls, lookups,
                   tableVars, vd, color_docs, viewbox_only>>

ConvertWith(cm, vbo, e) ==
    Finish(convert_vector_drawable_xml(vd, cm, vbo), cm, e)

\* convert_vector_drawable(vd_file_path, color_map_paths, viewbox_only, ...)
ConvertVectorDrawable ==
    /\ status = "parsed"
    /\ ConvertWith(PathColorMap(color_docs), viewbox_only, "path")

\* convert_vector_drawable_stream(input_stream, color_map_stream): line 139
\* passes False for viewbox_only
ConvertVectorDrawableStream ==
    /\ status = "parsed"
    /\ Len(color_docs) <= 1
    /\ ConvertWith(StreamColorMap(color_docs), FALSE, "stream")

NextConvert == ConvertVectorDrawable \/ ConvertVectorDrawableStream

-----------------------------------------------------------------------------
(* The documents the model converts                                        *)

\* the number of elements of a source document, the vector element included
MaxNodes == 5

Str24 == <<"2", "4">>
Str48 == <<"4", "8">>
PathM == <<"M", "0", ",", "0">>

VectorAttrs(w, h) == (ViewportWidth :> w) @@ (ViewportHeight :> h)

\* the ancestors of node j under parent function p, j included
RECURSIVE AncestorsOrSelf(_, _)
AncestorsOrSelf(p, j) ==
    IF j = 1 THEN {1} ELSE {j} \cup AncestorsOrSelf(p, p[j])

\* the parent functions of the documents of n elements: in document order an
\* element follows its parent, and opens under an element still open
Parents(n) ==
    {p \in [2..n -> 1..n] :
        /\ \A i \in 2..n : p[i] < i
        /\ \A i \in 2..n : p[i] \in AncestorsOrSelf(p, i - 1)}

\* what an element below the vector element may be
NodeKinds ==
    { [tag |-> "group", attrs |-> <<>>],
      [tag |-> "path", attrs |-> (PathData :> PathM)],
      [tag |-> "path", attrs |-> <<>>],
      [tag |-> "clip-path", attrs |-> <<>>] }

\* the document of n elements with parent function p and kinds k
Document(n, p, k) ==
    [i \in 1..n |->
        IF i = 1 THEN Node("vector", 0, VectorAttrs(Str24, Str48))
        ELSE Node(k[i].tag, p[i], k[i].attrs)]

InitConvert ==
    /\ entry = "none" /\ svg = <<>> /\ status = "parsed"
    /\ IdleResolve /\ IdleTable

\* documents of every shape, with plain groups and paths
InitShapes ==
    /\ \E n \in 1..MaxNodes :
        \E p \in Parents(n), k \in [2..n -> NodeKinds] : vd = Document(n, p, k)
    /\ color_docs = <<>>
    /\ viewbox_only = FALSE
    /\ InitConvert

Spec == InitShapes /\ [][NextConvert]_vars

\* an attribute that is absent (opt = <<>>) or present with value opt[1]
OptAttr(name, opt) == IF opt = <<>> THEN <<>> ELSE (name :> opt[1])

Str0 == <<"0">>
Str5 == <<"5">>
Str7 == <<"7">>

\* absent, empty, zero, or another number
TranslateXs == {<<>>, <<<<>>>>, <<Str0>>, <<Str5>>}
TranslateYs == {<<>>, <<<<>>>>, <<Str0>>, <<Str7>>}

VectorAttrSets == {VectorAttrs(Str24, Str48), (ViewportHeight :> Str48)}

PathAttrSets ==
    { (PathData :> PathM),
      (PathData :> PathM) @@ (FillColor :> Lit8),
      (PathData :> PathM) @@ (FillColor :> Ref(NameA))
            @@ (StrokeColor :> Ref(NameC)) @@ (StrokeWidth :> Str5),
      (PathData :> PathM) @@ (StrokeLineJoin :> <<"r">>)
            @@ (StrokeLineCap :> <<"b">>) @@ (StrokeMiter :> Str7) }

ColorDocLists ==
    { <<>>,
      <<ColorsXml(<<Color(NameA, Ref(NameB)), Color(NameB, Lit8)>>)>>,
      <<ColorsXml(<<Color(NameA, Lit6)>>),
        ColorsXml(<<Color(NameC, Lit8), Color(NameA, Lit8), Color(NameC, Lit6)>>)>> }

\* one document shape (a group holding a path, then a path of the vector
\* node), with every combination of the attributes that decide the output
\* attributes
InitAttrs ==
    /\ \E va \in VectorAttrSets, tx \in TranslateXs, ty \in TranslateYs,
          pa \in PathAttrSets :
          vd = << Node("vector", 0, va),
                  Node("group", 1, OptAttr(TranslateX, tx) @@ OptAttr(TranslateY, ty)),
                  Node("path", 2, pa),
                  Node("path", 1, (PathData :> PathM) @@ (FillColor :> Lit6)) >>
    /\ color_docs \in ColorDocLists
    /\ viewbox_only \in BOOLEAN
    /\ InitConvert

SpecAttrs == InitAttrs /\ [][NextConvert]_vars

-----------------------------------------------------------------------------
(* Properties of the conversion                                            *)

IsPath(i) == vd[i].tag = "path"
IsGroup(i) == vd[i].tag = "group"

\* the number of elements a node is below the vector node
RECURSIVE Level(_)
Level(i) == IF vd[i].parent = 0 THEN 0 ELSE 1 + Level(vd[i].parent)

\* the parent of path i is the vector node or a group
UnderRootOrGroup(i) == vd[i].parent = 1 \/ IsGroup(vd[i].parent)

\* source path i is somewhere in the output tree
Emitted(i) ==
    \E k \in 1..Len(svg.children) :
        \/ svg.children[k].tag = "path" /\ svg.children[k].src = i
        \/ \E j \in 1..Len(svg.children[k].children) :
                svg.children[k].children[j].src = i

\* elems are elements of the given tag made for exactly the source nodes of
\* S, one each, in document order
MadeFor(elems, S, tag) ==
    /\ Len(elems) = Cardinality(S)
    /\ \A k \in 1..Len(elems) :
        /\ elems[k].tag = tag
        /\ elems[k].src \in S
        /\ k > 1 => elems[k - 1].src < elems[k].src

\* C6 (as claimed): a path two or more levels below the children of the
\* vector node (the reading that does not count a path directly inside a
\* top-level group), or whose parent is neither the vector node nor a group,
\* is nowhere in the output.
C6_DeepPathsOmitted ==
    status = "done" =>
        \A i \in 1..Len(vd) :
            (IsPath(i) /\ (Level(i) >= 3 \/ ~UnderRootOrGroup(i))) => ~Emitted(i)

\* C6 (amended): a path is in the output exactly when its parent is the
\* vector node or a group, at whatever depth that group is; a path whose
\* parent is anything else is omitted and cannot make the conversion fail:
\* the conversion completes whenever every path under the vector node or a
\* group has its pathData.
C6_PathsOfOtherParentsOmitted ==
    /\ status = "done" =>
        \A i \in 1..Len(vd) : IsPath(i) => (Emitted(i) <=> UnderRootOrGroup(i))
    /\ (entry # "none"
            /\ \A i \in 1..Len(vd) :
                (IsPath(i) /\ UnderRootOrGroup(i)) => HasAttribute(vd[i], PathData))
        => status = "done"

C6_Witness ==
    /\ status = "done"
    /\ \E i \in 1..Len(vd), j \in 1..Len(vd) :
        /\ IsPath(i) /\ Level(i) >= 2 /\ ~UnderRootOrGroup(i)
        /\ ~HasAttribute(vd[i], PathData) /\ ~Emitted(i)
        /\ IsPath(j) /\ Level(j) >= 3 /\ Emitted(j)

\* C7: the children of the output root are one g per source group, in
\* document order whatever the nesting, each holding exactly the paths that
\* are children of its group in document order, and after all of them the
\* paths that are children of the vector node, in document order.
C7_GroupsThenRootPaths ==
    status = "done" =>
        LET groups == {i \in 1..Len(vd) : IsGroup(i)}
            n == Cardinality(groups)
        IN  /\ MadeFor(SubSeq(svg.children, 1, n), groups, "g")
            /\ MadeFor(SubSeq(svg.children, n + 1, Len(svg.children)),
                       {i \in 1..Len(vd) : IsPath(i) /\ vd[i].parent = 1}, "path")
            /\ \A k \in 1..n :
                MadeFor(svg.children[k].children,
                        {i \in 1..Len(vd) :
                            IsPath(i) /\ vd[i].parent = svg.children[k].src},
                        "path")

C7_Witness ==
    /\ status = "done" /\ Len(vd) = 5
    /\ IsPath(2) /\ vd[2].parent = 1
    /\ IsGroup(3) /\ vd[3].parent = 1
    /\ IsGroup(4) /\ vd[4].parent = 3
    /\ IsPath(5) /\ vd[5].parent = 4
    /\ Len(svg.children) = 3
    /\ svg.children[1].src = 3 /\ svg.children[1].children = <<>>
    /\ svg.children[2].src = 4 /\ svg.children[2].children[1].src = 5
    /\ svg.children[3].src = 2

\* the declared value of a translation, or 0 when it is not declared
Declared(node, name) == IF HasAttribute(node, name) THEN node.attrs[name] ELSE Str0

TranslateText(node) ==
    <<"t", "r", "a", "n", "s", "l", "a", "t", "e", "(">>
        \o Declared(node, TranslateX) \o <<",">> \o Declared(node, TranslateY)
        \o <<")">>

\* output child k, a group, has a transform exactly when wanted, and then it
\* is translate(X,Y) for the declared X and Y of its source group
TransformIs(k, wanted) ==
    LET attrs == svg.children[k].attrs
    IN  /\ "transform" \in DOMAIN attrs <=> wanted
        /\ wanted => attrs["transform"] = TranslateText(vd[svg.children[k].src])

NonZero(node) ==
    \E a \in {TranslateX, TranslateY} :
        HasAttribute(node, a) /\ node.attrs[a] \notin {<<>>, Str0}

NonEmpty(node) ==
    \E a \in {TranslateX, TranslateY} :
        HasAttribute(node, a) /\ node.attrs[a] # <<>>

\* C8 (as claimed): an output group has transform="translate(X,Y)" exactly
\* when its source group declares a translation that is neither empty nor
\* zero; a group that declares none, or only zero ones, has no transform.
C8_TransformIffNonZero ==
    status = "done" =>
        \A k \in 1..Len(svg.children) :
            svg.children[k].tag = "g"
                => TransformIs(k, NonZero(vd[svg.children[k].src]))

\* C8 (amended): an output group has transform="translate(X,Y)" exactly when
\* its source group declares a translation that is a non-empty string, "0"
\* included (translateX="0" alone gives translate(0,0)); X and Y are the
\* declared strings, 0 for an absent one.
C8_TransformIffNonEmpty ==
    status = "done" =>
        \A k \in 1..Len(svg.children) :
            svg.children[k].tag = "g"
                => TransformIs(k, NonEmpty(vd[svg.children[k].src]))

C8_Witness ==
    /\ status = "done"
    /\ vd[2].attrs = (TranslateX :> Str0)
    /\ svg.children[1].attrs =
        ("transform" :> <<"t", "r", "a", "n", "s", "l", "a", "t", "e", "(",
                          "0", ",", "0", ")">>)

\* the output root has the viewBox and xmlns, and has width and height
\* exactly when sized is true
RootAttrsAre(sized) ==
    LET W == vd[1].attrs[ViewportWidth]
        H == vd[1].attrs[ViewportHeight]
    IN  /\ svg.attrs["viewBox"] = <<"0", " ", "0", " ">> \o W \o <<" ">> \o H
        /\ svg.attrs["xmlns"] = Xmlns
        /\ sized => /\ DOMAIN svg.attrs = {"viewBox", "xmlns", "width", "height"}
                    /\ svg.attrs["width"] = W /\ svg.attrs["height"] = H
        /\ ~sized => DOMAIN svg.attrs = {"viewBox", "xmlns"}

\* C9 (as claimed): the output root always has the viewBox and xmlns, and
\* has width and height exactly when the caller's viewbox-only choice is
\* false, whichever entry point was called.
C9_BothEntriesHonourViewboxOnly ==
    status = "done" => RootAttrsAre(~viewbox_only)

\* C9 (amended): the output root always has the viewBox and xmlns; through
\* the path-based entry point it has width and height exactly when
\* viewbox-only is false; the stream-based entry point takes no such choice
\* and always writes width and height.
C9_StreamEntryAlwaysSized ==
    status = "done" => RootAttrsAre(entry = "stream" \/ ~viewbox_only)

C9_Witness ==
    /\ status = "done" /\ entry = "path" /\ viewbox_only
    /\ DOMAIN svg.attrs = {"viewBox", "xmlns"}
    /\ svg.attrs["viewBox"] = <<"0", " ", "0", " ", "2", "4", " ", "4", "8">>

====
